---- MODULE Spec2Model ----
(***************************************************************************)
(* Model of the label back-office application: the task / project          *)
(* workflow (apps.tasks), and the financial module (apps.label_reports):   *)
(* report validation and processing, batch distribution, invoice           *)
(* generation, advances and their amortizations, the distribution          *)
(* arithmetic of one report item, and the save() overrides of the label    *)
(* catalog (apps.label_catalog) that send change notifications.            *)
(*                                                                         *)
(* The database is the state.  One action is one whole handler or model    *)
(* method, with the saves and signal handlers it triggers.                 *)
(***************************************************************************)
EXTENDS Integers, Sequences, FiniteSets, TLC

----------------------------------------------------------------------------
(* Bounds of the model. *)

\* number of tasks in the database
NTasks == 2
\* checklist items a task may have
MaxItems == 1
\* days the clock runs over (timezone.now())
MaxDay == 2
\* latest date a project or a task may reach
MaxDate == 3
\* largest number of days of a postponement
MaxPostpone == 1
\* number of reports of the batch
NReports == 1
\* lines of a report file
MaxLines == 1
\* temporary items a report may hold
MaxTemp == 2
\* process_report_task messages that may wait for one report
MaxQueue == 1
\* number of advances of the holder, where one invoice is followed
NAdvances == 2
\* number of batches (each with one invoice of the holder), where one
\* advance is followed
NBatches == 2
\* largest amount of money, in cents
MaxAmount == 2
\* manual amortizations an advance may have
MaxManual == 1
\* transfers (holders other than the main holder) an item may have
MaxHolders == 2
\* largest value of a report line, in units of 0.00001
MaxValue == 3
\* rows (primary keys) of each catalog model
NRows == 1
\* values the field of a catalog row may take
MaxField == 2

----------------------------------------------------------------------------
(* apps.tasks: Task, TaskItem, Project *)

VARIABLES
    tStatus,      \* Task.status, per task
    tDoneDate,    \* Task.done_date, per task (NoDate: null)
    tArchived,    \* Task.archived
    tItems,       \* the checklist items (TaskItem) of each task
    tItemsDone,   \* the items with TaskItem.done = True
    tParents,     \* Task.parent_task (many to many)
    now,          \* timezone.now()
    pStart,       \* Project.start_date
    tDue,         \* Task.due_date of the project's tasks (NoDate: null)
    lastOp        \* the last handler that ran and what it returned

\* apps.label_reports: Batch, Report, ReportFile, ReportTempItem*, ReportItem
VARIABLES
    bStatus,      \* Batch.status
    rStatus,      \* Report.status, per report of the batch
    rDist,        \* Report.status_distribution
    rFile,        \* what translate_file_to_dict reads from the report's files
    rTempA,       \* the ReportTempItemAsset rows of each report
    rTempY,       \* the ReportTempItemYoutube rows of each report
    rItems,       \* number of ReportItem rows of each report
    procQueue,    \* process_report_task messages in the queue, per report
    catalog       \* the identifiers the catalog holds (products, assets, youtube assets)

\* apps.label_reports: Batch, Invoice, Advance, AdvanceInvoiceRelation
VARIABLES
    batchStatus,  \* Batch.status, per batch
    batchDue,     \* Batch.invoice_due_date (NoDate: null)
    batchValue,   \* what the holder's report items of the batch add up to, less tax retention
    inv,          \* the holder's Invoice of each batch
    adv,          \* the holder's Advance rows
    rel,          \* the AdvanceInvoiceRelation of an advance and an invoice
    manual        \* the manual amortizations (no invoice) of each advance

\* one temporary item of a report, the asset it names, the report items made of it
VARIABLES
    iValue,       \* ReportTempItem.value, in units of 0.00001
    iProvider,    \* report.provider.share, a percentage
    iMainShare,   \* main_holder.share (share_youtube for a youtube asset), a percentage
    iHolders,     \* the AssetHolder / ProductHolder / YoutubeAssetHolder rows of the asset
    iReportItems  \* the ReportItem rows made of the item (none before it is distributed)

\* the label catalog, the notification setting, the logs and the task queue
VARIABLES
    SEND_TELEGRAM_NOTIFICATIONS,  \* the setting of settings.local
    namesBound,   \* whether the names the inlined notification code reads are bound
    products,     \* the Product rows: pk -> date_release, NoRow where there is none
    assets,       \* the Asset rows: pk -> isrc
    links,        \* the AssetComposerLink rows: pk -> percentage
    logged,       \* what log_notification and log_error have written, by model
    celery        \* the tasks handed to apply_async

\* a null DateField
NoDate == -1

Tasks == 1..NTasks
Days == 1..MaxDay
Dates == 0..MaxDate

\* the return value None of the mark_status_* methods and of postpone
RetNone == "None"
RetError == "error"

TASK_STATUSES == {"NEW", "HOL", "DON", "CAN"}

get_new_status_code == "NEW"
get_done_status_code == "DON"
get_onhold_status_code == "HOL"
get_canceled_status_code == "CAN"

taskVars == <<tStatus, tDoneDate, tArchived, tItems, tItemsDone, tParents, now>>
projVars == <<pStart, tDue>>
repVars == <<bStatus, rStatus, rDist, rFile, rTempA, rTempY, rItems, procQueue, catalog>>

invVars == <<batchStatus, batchDue, batchValue, inv, adv, rel, manual>>

distVars == <<iValue, iProvider, iMainShare, iHolders, iReportItems>>

catVars == <<SEND_TELEGRAM_NOTIFICATIONS, namesBound, products, assets, links, logged, celery>>

nonTaskVars == <<projVars, repVars, invVars, distVars, catVars>>
nonProjVars == <<taskVars, repVars, invVars, distVars, catVars>>
nonRepVars == <<taskVars, projVars, invVars, distVars, catVars>>
nonInvVars == <<taskVars, projVars, repVars, distVars, catVars>>
nonDistVars == <<taskVars, projVars, repVars, invVars, catVars>>
nonCatVars == <<taskVars, projVars, repVars, invVars, distVars>>

vars == <<taskVars, projVars, repVars, invVars, distVars, catVars, lastOp>>

\* Task.get_items_done_count
get_items_done_count(t) == Cardinality(tItemsDone[t])

\* a plausible slip: a parent on hold counts as closed
check_parent_is_done_mutant(t) ==
    \A p \in tParents[t] : tStatus[p] \in {get_done_status_code, get_canceled_status_code,
                                           get_onhold_status_code}

\* Task.check_parent_is_done
check_parent_is_done(t) ==
    \A p \in tParents[t] : tStatus[p] \in {get_done_status_code, get_canceled_status_code}

\* Task.mark_status_as_done called from helper_api_task_status (mark_as_done):
\* on an error the view returns before task.save().
MarkAsDone(t) ==
    /\ IF get_items_done_count(t) # Cardinality(tItems[t])
       THEN /\ lastOp' = [name |-> "mark_as_done", arg |-> t, ret |-> RetError]
            /\ UNCHANGED <<tStatus, tDoneDate>>
       ELSE IF ~check_parent_is_done(t)
       THEN /\ lastOp' = [name |-> "mark_as_done", arg |-> t, ret |-> RetError]
            /\ UNCHANGED <<tStatus, tDoneDate>>
       ELSE /\ tStatus' = [tStatus EXCEPT ![t] = get_done_status_code]
            /\ tDoneDate' = [tDoneDate EXCEPT ![t] = now]
            /\ lastOp' = [name |-> "mark_as_done", arg |-> t, ret |-> RetNone]
    /\ UNCHANGED <<tArchived, tItems, tItemsDone, tParents, now, nonTaskVars>>

\* Task.mark_status_as_new called from helper_api_task_status (mark_as_new):
\* the status is set in memory; with done items the view returns the error
\* before task.save(), otherwise task.save() stores the new status.  The
\* done_date is not touched.
MarkAsNew(t) ==
    /\ IF get_items_done_count(t) > 0
       THEN /\ lastOp' = [name |-> "mark_as_new", arg |-> t, ret |-> RetError]
            /\ UNCHANGED tStatus
       ELSE /\ tStatus' = [tStatus EXCEPT ![t] = get_new_status_code]
            /\ lastOp' = [name |-> "mark_as_new", arg |-> t, ret |-> RetNone]
    /\ UNCHANGED <<tDoneDate, tArchived, tItems, tItemsDone, tParents, now, nonTaskVars>>

\* Task.mark_status_as_canceled_or_onhold
MarkAsCanceledOrOnhold(t, is_canceled) ==
    /\ tStatus' = [tStatus EXCEPT ![t] = IF is_canceled THEN get_canceled_status_code
                                                      ELSE get_onhold_status_code]
    /\ tDoneDate' = [tDoneDate EXCEPT ![t] = NoDate]
    /\ lastOp' = [name |-> IF is_canceled THEN "mark_as_canceled" ELSE "mark_as_onhold",
                  arg |-> t, ret |-> RetNone]
    /\ UNCHANGED <<tArchived, tItems, tItemsDone, tParents, now, nonTaskVars>>

\* helper_api_task_status with archive=True (api_task_archive)
Archive(t) ==
    /\ tArchived' = [tArchived EXCEPT ![t] = TRUE]
    /\ tStatus' = [tStatus EXCEPT ![t] = get_done_status_code]
    /\ lastOp' = [name |-> "archive", arg |-> t, ret |-> RetNone]
    /\ UNCHANGED <<tDoneDate, tItems, tItemsDone, tParents, now, nonTaskVars>>

\* api_task_item_toggle_status: task_item.done = is_done
ItemToggleStatus(t) ==
    /\ \E i \in tItems[t], is_done \in BOOLEAN :
          tItemsDone' = [tItemsDone EXCEPT ![t] = IF is_done THEN @ \cup {i} ELSE @ \ {i}]
    /\ lastOp' = [name |-> "item_toggle", arg |-> t, ret |-> RetNone]
    /\ UNCHANGED <<tStatus, tDoneDate, tArchived, tItems, tParents, now, nonTaskVars>>

\* the clock: timezone.now() moves on
Tick ==
    /\ now < MaxDay
    /\ now' = now + 1
    /\ lastOp' = [name |-> "tick", arg |-> 0, ret |-> RetNone]
    /\ UNCHANGED <<tStatus, tDoneDate, tArchived, tItems, tItemsDone, tParents, nonTaskVars>>

\* Tasks as created: status NEW (the field's default), no done date, not
\* archived, any checklist with nothing done, any parent tasks but itself.
InitTasks ==
    /\ tStatus = [t \in Tasks |-> "NEW"]
    /\ tDoneDate = [t \in Tasks |-> NoDate]
    /\ tArchived = [t \in Tasks |-> FALSE]
    /\ tItems \in [Tasks -> {1..n : n \in 0..MaxItems}]
    /\ tItemsDone = [t \in Tasks |-> {}]
    /\ tParents \in [Tasks -> SUBSET Tasks]
    /\ \A t \in Tasks : t \notin tParents[t]
    /\ now = 1

\* the project part at rest, for the specifications that do not use it
IdleProject ==
    /\ pStart = 0
    /\ tDue = <<>>

\* the report part at rest, for the specifications that do not use it
IdleReports ==
    /\ bStatus = "OP"
    /\ rStatus = <<>>
    /\ rDist = <<>>
    /\ rFile = <<>>
    /\ rTempA = <<>>
    /\ rTempY = <<>>
    /\ rItems = <<>>
    /\ procQueue = <<>>
    /\ catalog = {}

\* the invoice part at rest, for the specifications that do not use it
IdleInvoices ==
    /\ batchStatus = <<>>
    /\ batchDue = <<>>
    /\ batchValue = <<>>
    /\ inv = <<>>
    /\ adv = <<>>
    /\ rel = <<>>
    /\ manual = <<>>

\* the distribution part at rest, for the specifications that do not use it
IdleDist ==
    /\ iValue = 0
    /\ iProvider = 0
    /\ iMainShare = 0
    /\ iHolders = <<>>
    /\ iReportItems = <<>>

\* the catalog part at rest, for the specifications that do not use it
IdleCatalog ==
    /\ SEND_TELEGRAM_NOTIFICATIONS = FALSE
    /\ namesBound = FALSE
    /\ products = <<>>
    /\ assets = <<>>
    /\ links = <<>>
    /\ logged = {}
    /\ celery = {}

NoOp == [name |-> "init", arg |-> 0, ret |-> RetNone]

InitTask ==
    /\ InitTasks
    /\ IdleProject
    /\ IdleReports
    /\ IdleInvoices
    /\ IdleDist
    /\ IdleCatalog
    /\ lastOp = NoOp

NextTask ==
    \/ \E t \in Tasks : MarkAsDone(t)
    \/ \E t \in Tasks : MarkAsNew(t)
    \/ \E t \in Tasks, c \in BOOLEAN : MarkAsCanceledOrOnhold(t, c)
    \/ \E t \in Tasks : Archive(t)
    \/ \E t \in Tasks : ItemToggleStatus(t)
    \/ Tick

SpecTask == InitTask /\ [][NextTask]_vars

----------------------------------------------------------------------------
(* apps.tasks: Project.postpone_for_n_days *)

\* the orders in which the queryset self.task_project.all() may yield the
\* project's tasks (Task declares no ordering)
TaskOrders ==
    {o \in [Tasks -> Tasks] : \A a, b \in Tasks : a # b => o[a] # o[b]}

\* position in the iteration of the first task whose due_date is null, where
\* task.due_date + timedelta(...) raises; NTasks + 1 when there is none
FirstNullDue(ord) ==
    IF \E k \in Tasks : tDue[ord[k]] = NoDate
    THEN CHOOSE k \in Tasks : /\ tDue[ord[k]] = NoDate
                              /\ \A j \in Tasks : j < k => tDue[ord[j]] # NoDate
    ELSE NTasks + 1

\* the due dates the loop of postpone_for_n_days has saved when it ends or
\* raises: each task before the first null due date is moved and saved
PostponedDueDates(ord, postpone_days) ==
    [t \in Tasks |->
        IF \E k \in Tasks : ord[k] = t /\ k < FirstNullDue(ord)
        THEN tDue[t] + postpone_days
        ELSE tDue[t]]

\* Project.postpone_for_n_days called from postpone_project: start_date is
\* changed in memory, each task is moved and saved in turn, the project is
\* saved last; any exception is caught and returned as a string.
PostponeForNDays(postpone_days, ord) ==
    /\ pStart + postpone_days \in Dates
    /\ \A t \in Tasks : tDue[t] # NoDate => tDue[t] + postpone_days \in Dates
    /\ tDue' = PostponedDueDates(ord, postpone_days)
    /\ IF FirstNullDue(ord) <= NTasks
       THEN /\ pStart' = pStart
            /\ lastOp' = [name |-> "postpone", arg |-> postpone_days, ret |-> RetError]
       ELSE /\ pStart' = pStart + postpone_days
            /\ lastOp' = [name |-> "postpone", arg |-> postpone_days, ret |-> RetNone]
    /\ UNCHANGED nonProjVars

\* Task.edit_self: task.due_date = form['due_date'] (the field is nullable)
EditDueDate(t, d) ==
    /\ tDue' = [tDue EXCEPT ![t] = d]
    /\ lastOp' = [name |-> "edit_task", arg |-> t, ret |-> RetNone]
    /\ UNCHANGED <<pStart, nonProjVars>>

\* the task part at rest, for the specifications that do not use it
IdleTasks ==
    /\ tStatus = [t \in Tasks |-> "NEW"]
    /\ tDoneDate = [t \in Tasks |-> NoDate]
    /\ tArchived = [t \in Tasks |-> FALSE]
    /\ tItems = [t \in Tasks |-> {}]
    /\ tItemsDone = [t \in Tasks |-> {}]
    /\ tParents = [t \in Tasks |-> {}]
    /\ now = 1

InitProject ==
    /\ IdleTasks
    /\ IdleReports
    /\ IdleInvoices
    /\ IdleDist
    /\ IdleCatalog
    /\ pStart \in Dates
    /\ tDue \in [Tasks -> Dates \cup {NoDate}]
    /\ lastOp = NoOp

NextProject ==
    \/ \E n \in (0 - MaxPostpone)..MaxPostpone, ord \in TaskOrders : PostponeForNDays(n, ord)
    \/ \E t \in Tasks, d \in Dates \cup {NoDate} : EditDueDate(t, d)

SpecProject == InitProject /\ [][NextProject]_vars

\* C9: postpone_for_n_days(n) is all or nothing: it returns None and the
\* start_date and every task's due_date have moved by exactly n days, or it
\* returns an error string and no date of the project or its tasks changed.
C9_PostponeAllOrNothing ==
    [][lastOp'.name = "postpone" =>
          \/ /\ lastOp'.ret = RetNone
             /\ pStart' = pStart + lastOp'.arg
             /\ \A t \in Tasks : tDue[t] # NoDate /\ tDue'[t] = tDue[t] + lastOp'.arg
          \/ /\ lastOp'.ret = RetError
             /\ pStart' = pStart
             /\ tDue' = tDue]_vars

\* the half of C9 that the code keeps: a postponement that returns None has
\* moved the start_date and every due_date by n days
C9_SuccessMovesEverything ==
    [][(lastOp'.name = "postpone" /\ lastOp'.ret = RetNone) =>
          /\ pStart' = pStart + lastOp'.arg
          /\ \A t \in Tasks : tDue[t] # NoDate /\ tDue'[t] = tDue[t] + lastOp'.arg]_vars

\* C7: a mark_status_as_done call on task t stores status DON and a done
\* date, and returns None, when every checklist item of t is done and every
\* parent task of t is DON or CAN; in every other case it returns an error
\* message and the stored status and done_date of t are what they were.
C7_MarkAsDoneGuarded ==
    [][\A t \in Tasks :
          (lastOp'.name = "mark_as_done" /\ lastOp'.arg = t) =>
             IF /\ tItemsDone[t] = tItems[t]
                /\ \A p \in tParents[t] : tStatus[p] \in {"DON", "CAN"}
             THEN /\ lastOp'.ret = RetNone
                  /\ tStatus'[t] = "DON"
                  /\ tDoneDate'[t] = now
                  /\ tDoneDate'[t] # NoDate
             ELSE /\ lastOp'.ret = RetError
                  /\ tStatus'[t] = tStatus[t]
                  /\ tDoneDate'[t] = tDoneDate[t]]_vars

\* a task whose checklist is complete was refused because a parent is on hold
C7_Witness ==
    \E t \in Tasks :
        /\ lastOp = [name |-> "mark_as_done", arg |-> t, ret |-> RetError]
        /\ tItems[t] # {} /\ tItemsDone[t] = tItems[t]
        /\ \E p \in tParents[t] : tStatus[p] = "HOL"
        /\ tStatus[t] = "NEW"

\* C8: after any sequence of status operations a task has a done_date
\* exactly when its status is DON.
C8_DoneDateIffDone ==
    \A t \in Tasks : (tDoneDate[t] # NoDate) <=> (tStatus[t] = "DON")

\* the half of C8 the status operations other than archive and mark-as-new
\* keep: a canceled or on-hold task has no done date
C8_CanceledOrOnholdHasNoDoneDate ==
    \A t \in Tasks : tStatus[t] \in {"CAN", "HOL"} => tDoneDate[t] = NoDate

----------------------------------------------------------------------------
(* apps.label_reports: Report.validate_file, Report.process_file,          *)
(* Report.recheck_items_match, Batch.distribute_batch                      *)

Reports == 1..NReports

BATCH_STATUS_CHOICES == {"OP", "PR", "PRS", "PI", "PE", "CL", "PA", "BA", "BS", "BE"}
REPORT_STATUS_CHOICES == {"PEN", "VAL", "PRO", "PPE", "SUC", "ERR"}

\* The identifiers a line of a report carries: every DSP (audio) line names
\* the UPC "upc" and the ISRC "isrc", every YouTube (video) line names the
\* asset id "yt".  The catalog holds a product, an asset, a youtube asset
\* for an identifier or does not.
CatalogIds == {"upc", "isrc", "yt"}

\* A line of a report file: "AU" and "VI" are lines that pass every check of
\* validate_file, with format audio and video; "bad" is a line that fails
\* one (no identifier, no DSP, no value, ...).
Lines == {"AU", "VI", "bad"}

\* What translate_file_to_dict returns: status 'error', or the item lines
FileContents ==
    {[status |-> "error", items |-> <<>>]}
    \cup {[status |-> "ok", items |-> ls] :
             ls \in UNION {[1..n -> Lines] : n \in 0..MaxLines}}

\* Report.translate_file_to_dict
translate_file_to_dict(r) == rFile[r]

\* the number of lines of a file validate_file counts an error for
RECURSIVE CountBad(_)
CountBad(ls) ==
    IF ls = <<>> THEN 0
    ELSE (IF Head(ls) = "bad" THEN 1 ELSE 0) + CountBad(Tail(ls))

\* errors_count at the end of Report.validate_file
ValidateErrorsCount(r) ==
    LET data == translate_file_to_dict(r)
        e1 == IF data.status = "error" THEN 1 ELSE 0
    IN  IF Len(data.items) <= 0 /\ data.status # "error"
        THEN e1 + 1
        ELSE IF rStatus[r] = "PEN" \/ rStatus[r] = "ERR"
        THEN e1 + CountBad(data.items)
        ELSE e1

\* whether Report.validate_file reaches the branch that marks the report VAL
\* and enqueues process_report_task
ValidateMarksValid(r) ==
    LET data == translate_file_to_dict(r)
    IN  /\ ~(Len(data.items) <= 0 /\ data.status # "error")
        /\ (rStatus[r] = "PEN" \/ rStatus[r] = "ERR")
        /\ ValidateErrorsCount(r) = 0

\* Report.validate_file
ValidateFile(r) ==
    /\ ValidateMarksValid(r) => procQueue[r] < MaxQueue
    /\ rStatus' = [rStatus EXCEPT ![r] =
                      IF ValidateErrorsCount(r) > 0 THEN "ERR"
                      ELSE IF ValidateMarksValid(r) THEN "VAL"
                      ELSE @]
    /\ procQueue' = [procQueue EXCEPT ![r] = IF ValidateMarksValid(r) THEN @ + 1 ELSE @]
    /\ lastOp' = [name |-> "validate_file", arg |-> r,
                  ret |-> IF ValidateMarksValid(r) THEN "enqueued" ELSE RetNone]
    /\ UNCHANGED <<bStatus, rDist, rFile, rTempA, rTempY, rItems, catalog, nonRepVars>>

\* the ReportTempItemAsset rows process_file builds from the audio lines:
\* product_id and asset_id are set when the catalog holds the UPC, the ISRC
TempAssetsOf(ls) ==
    LET au == SelectSeq(ls, LAMBDA l : l # "VI")
    IN  [i \in 1..Len(au) |-> [product |-> "upc" \in catalog, asset |-> "isrc" \in catalog]]

\* the ReportTempItemYoutube rows process_file builds from the video lines
TempYoutubeOf(ls) ==
    LET vi == SelectSeq(ls, LAMBDA l : l = "VI")
    IN  [i \in 1..Len(vi) |-> [youtube_asset |-> "yt" \in catalog]]

\* an asset item with neither product nor asset (the filter of
\* recheck_items_match: product_id__isnull=True, asset_id__isnull=True)
UnidentifiedA(it) == ~it.product /\ ~it.asset
\* a youtube item with no youtube asset (youtube_asset_id__isnull=True)
UnidentifiedY(it) == ~it.youtube_asset

CountUnidentifiedA(items) == Cardinality({i \in DOMAIN items : UnidentifiedA(items[i])})
CountUnidentifiedY(items) == Cardinality({i \in DOMAIN items : UnidentifiedY(items[i])})

\* Report.process_file, run by process_report_task: count_pending_id counts
\* the items built in this run
ProcessFile(r) ==
    /\ procQueue[r] > 0
    /\ procQueue' = [procQueue EXCEPT ![r] = @ - 1]
    /\ IF rStatus[r] = "VAL"
       THEN LET data == translate_file_to_dict(r)
                temp_assets == TempAssetsOf(data.items)
                temp_youtube_assets == TempYoutubeOf(data.items)
                count_pending_id == CountUnidentifiedA(temp_assets)
                                    + CountUnidentifiedY(temp_youtube_assets)
            IN  /\ Len(rTempA[r]) + Len(rTempY[r]) + Len(data.items) <= MaxTemp
                /\ rTempA' = [rTempA EXCEPT ![r] = @ \o temp_assets]
                /\ rTempY' = [rTempY EXCEPT ![r] = @ \o temp_youtube_assets]
                /\ rStatus' = [rStatus EXCEPT ![r] =
                                  IF count_pending_id > 0 THEN "PPE" ELSE "SUC"]
       ELSE UNCHANGED <<rStatus, rTempA, rTempY>>
    /\ lastOp' = [name |-> "process_file", arg |-> r, ret |-> RetNone]
    /\ UNCHANGED <<bStatus, rDist, rFile, rItems, catalog, nonRepVars>>

\* a ReportFile of the report is added or replaced (the report's files are
\* rows of their own); process_report_task runs a second after the
\* validation, before the files can change again
ReplaceFile(r, f) ==
    /\ procQueue[r] = 0
    /\ rFile[r] # f
    /\ rFile' = [rFile EXCEPT ![r] = f]
    /\ lastOp' = [name |-> "replace_file", arg |-> r, ret |-> RetNone]
    /\ UNCHANGED <<bStatus, rStatus, rDist, rTempA, rTempY, rItems, procQueue, catalog,
                   nonRepVars>>

\* a Product, an Asset or a YoutubeAsset with the identifier is created
AddToCatalog(x) ==
    /\ x \notin catalog
    /\ catalog' = catalog \cup {x}
    /\ lastOp' = [name |-> "add_to_catalog", arg |-> 0, ret |-> RetNone]
    /\ UNCHANGED <<bStatus, rStatus, rDist, rFile, rTempA, rTempY, rItems, procQueue,
                   nonRepVars>>

\* Report.recheck_items_match(product_ids, asset_ids, youtube_asset_ids):
\* found is the identifiers of the catalog objects the arguments name
RecheckItemsMatch(ids) ==
    LET found == ids \cap catalog
        newA == [r \in Reports |->
                    [i \in DOMAIN rTempA[r] |->
                        LET it == rTempA[r][i]
                        IN  IF found # {} /\ (~it.product \/ ~it.asset)
                            THEN [product |-> it.product \/ "upc" \in found,
                                  asset |-> it.asset \/ "isrc" \in found]
                            ELSE it]]
        newY == [r \in Reports |->
                    [i \in DOMAIN rTempY[r] |->
                        LET it == rTempY[r][i]
                        IN  IF found # {} /\ ~it.youtube_asset
                            THEN [youtube_asset |-> "yt" \in found]
                            ELSE it]]
    IN  /\ rTempA' = newA
        /\ rTempY' = newY
        /\ rStatus' = [r \in Reports |->
                          IF /\ rStatus[r] = "PPE"
                             /\ CountUnidentifiedA(newA[r]) + CountUnidentifiedY(newY[r]) = 0
                          THEN "SUC"
                          ELSE rStatus[r]]
        /\ lastOp' = [name |-> "recheck_items_match", arg |-> 0, ret |-> RetNone]
        /\ UNCHANGED <<bStatus, rDist, rFile, rItems, procQueue, catalog, nonRepVars>>

\* Batch.can_distribute_batch
can_distribute_batch ==
    /\ Cardinality({r \in Reports : rStatus[r] # "SUC"}) = 0
    /\ bStatus \in {"OP"}

\* position of the first item get_holder raises on (main_holder is None: no
\* asset and no product, or no youtube asset); Len + 1 when there is none
FirstUnidentifiedA(items) ==
    IF \E i \in DOMAIN items : UnidentifiedA(items[i])
    THEN CHOOSE i \in DOMAIN items :
            /\ UnidentifiedA(items[i])
            /\ \A j \in DOMAIN items : j < i => ~UnidentifiedA(items[j])
    ELSE Len(items) + 1

FirstUnidentifiedY(items) ==
    IF \E i \in DOMAIN items : UnidentifiedY(items[i])
    THEN CHOOSE i \in DOMAIN items :
            /\ UnidentifiedY(items[i])
            /\ \A j \in DOMAIN items : j < i => ~UnidentifiedY(items[j])
    ELSE Len(items) + 1

\* The body of the loop of distribute_batch for one report: the asset items
\* then the youtube items are distributed (a ReportItem saved, the temporary
\* item deleted) one by one, until one raises.  rItems counts one row for
\* each distributed item (the main holder's; transfers add rows).
DistributeReport(r) ==
    LET a == rTempA[r]
        y == rTempY[r]
        fa == FirstUnidentifiedA(a)
        fy == FirstUnidentifiedY(y)
    IN  IF fa <= Len(a)
        THEN [ok |-> FALSE, tempA |-> SubSeq(a, fa, Len(a)), tempY |-> y,
              items |-> rItems[r] + (fa - 1), dist |-> "PRO"]
        ELSE IF fy <= Len(y)
        THEN [ok |-> FALSE, tempA |-> <<>>, tempY |-> SubSeq(y, fy, Len(y)),
              items |-> rItems[r] + Len(a) + (fy - 1), dist |-> "PRO"]
        ELSE [ok |-> TRUE, tempA |-> <<>>, tempY |-> <<>>,
              items |-> rItems[r] + Len(a) + Len(y), dist |-> "SUC"]

\* the first report of the batch whose distribution raises; NReports + 1
\* when none does
FirstFailingReport ==
    IF \E r \in Reports : ~DistributeReport(r).ok
    THEN CHOOSE r \in Reports :
            /\ ~DistributeReport(r).ok
            /\ \A q \in Reports : q < r => DistributeReport(q).ok
    ELSE NReports + 1

\* Batch.distribute_batch
DistributeBatch ==
    /\ IF bStatus = "OP"
       THEN LET f == FirstFailingReport
            IN  /\ rTempA' = [r \in Reports |-> IF r <= f THEN DistributeReport(r).tempA
                                                          ELSE rTempA[r]]
                /\ rTempY' = [r \in Reports |-> IF r <= f THEN DistributeReport(r).tempY
                                                          ELSE rTempY[r]]
                /\ rItems' = [r \in Reports |-> IF r <= f THEN DistributeReport(r).items
                                                          ELSE rItems[r]]
                /\ rDist' = [r \in Reports |-> IF r <= f THEN DistributeReport(r).dist
                                                        ELSE rDist[r]]
                /\ bStatus' = IF f <= NReports THEN "PE" ELSE "PRS"
       ELSE UNCHANGED <<bStatus, rTempA, rTempY, rItems, rDist>>
    /\ lastOp' = [name |-> "distribute_batch", arg |-> 0, ret |-> RetNone]
    /\ UNCHANGED <<rStatus, rFile, procQueue, catalog, nonRepVars>>

\* A batch as created (status OP, the field's default) with its reports as
\* created (status PEN, distribution PEN, a file, nothing processed).
InitReports ==
    /\ bStatus = "OP"
    /\ rStatus = [r \in Reports |-> "PEN"]
    /\ rDist = [r \in Reports |-> "PEN"]
    /\ rFile \in [Reports -> FileContents]
    /\ rTempA = [r \in Reports |-> <<>>]
    /\ rTempY = [r \in Reports |-> <<>>]
    /\ rItems = [r \in Reports |-> 0]
    /\ procQueue = [r \in Reports |-> 0]
    /\ catalog \in SUBSET CatalogIds

InitReport ==
    /\ IdleTasks
    /\ IdleProject
    /\ IdleInvoices
    /\ IdleDist
    /\ IdleCatalog
    /\ InitReports
    /\ lastOp = NoOp

NextReport ==
    \/ \E r \in Reports : ValidateFile(r)
    \/ \E r \in Reports : ProcessFile(r)
    \/ \E r \in Reports, f \in FileContents : ReplaceFile(r, f)
    \/ \E x \in CatalogIds : AddToCatalog(x)
    \/ \E ids \in SUBSET CatalogIds : RecheckItemsMatch(ids)
    \/ DistributeBatch

SpecReport == InitReport /\ [][NextReport]_vars

\* C1: distribute_batch has no effect (no report item created, no status
\* changed) on a batch that has a report whose status is not SUC or whose
\* own status is not OP.
C1_DistributeOnlyWhenAllowed ==
    [][(lastOp'.name = "distribute_batch" /\ ~can_distribute_batch) =>
          UNCHANGED <<bStatus, rStatus, rDist, rItems, rTempA, rTempY>>]_vars

\* the part of C1 the code keeps: distribute_batch has no effect on a batch
\* whose status is not OP
C1_NoEffectUnlessOpen ==
    [][(lastOp'.name = "distribute_batch" /\ bStatus # "OP") =>
          UNCHANGED <<bStatus, rStatus, rDist, rItems, rTempA, rTempY>>]_vars

\* C5: a report has status SUC only while none of its temporary items is
\* unidentified.
C5_SucHasNoUnidentified ==
    \A r \in Reports :
        rStatus[r] = "SUC" =>
            CountUnidentifiedA(rTempA[r]) + CountUnidentifiedY(rTempY[r]) = 0

\* the part of C5 the code keeps: process_file leaves the report PPE when
\* one of the items it built is unidentified, and recheck_items_match leaves
\* a PPE report with an unidentified item PPE
C5_ProcessAndRecheckKeepPending ==
    [][/\ \A r \in Reports :
            (lastOp'.name = "process_file" /\ lastOp'.arg = r /\ rStatus[r] = "VAL") =>
               (rStatus'[r] = "PPE" <=>
                   CountUnidentifiedA(TempAssetsOf(rFile[r].items))
                   + CountUnidentifiedY(TempYoutubeOf(rFile[r].items)) > 0)
       /\ \A r \in Reports :
            (lastOp'.name = "recheck_items_match" /\ rStatus[r] = "PPE"
             /\ CountUnidentifiedA(rTempA'[r]) + CountUnidentifiedY(rTempY'[r]) > 0) =>
               rStatus'[r] = "PPE"]_vars

\* C6: validate_file always ends with the report marked VAL or ERR, and
\* process_report_task is enqueued exactly when the call marked the report
\* VAL.
C6_ValidateEndsValidOrError ==
    [][\A r \in Reports :
          (lastOp'.name = "validate_file" /\ lastOp'.arg = r) =>
             /\ rStatus'[r] \in {"VAL", "ERR"}
             /\ procQueue'[r] # procQueue[r] => rStatus'[r] = "VAL"
             /\ (rStatus'[r] = "VAL" /\ rStatus[r] # "VAL") =>
                   procQueue'[r] = procQueue[r] + 1]_vars

\* the part of C6 the code keeps: on a report that is PEN or ERR,
\* validate_file ends with VAL or ERR and enqueues exactly when VAL
C6_ValidatePendingEndsValidOrError ==
    [][\A r \in Reports :
          (lastOp'.name = "validate_file" /\ lastOp'.arg = r
           /\ rStatus[r] \in {"PEN", "ERR"}) =>
             /\ rStatus'[r] \in {"VAL", "ERR"}
             /\ (rStatus'[r] = "VAL" <=> procQueue'[r] = procQueue[r] + 1)
             /\ (rStatus'[r] # "VAL" => procQueue'[r] = procQueue[r])]_vars

----------------------------------------------------------------------------
(* apps.label_reports: Batch.make_invoices, Invoice, Advance,               *)
(* AdvanceInvoiceRelation.  Money is counted in cents.  There is one        *)
(* holder; each batch has one invoice of the holder, and advance a has the  *)
(* a-th advance_date.                                                       *)

\* the holder's advances, the batches
Advances == DOMAIN adv
Batches == DOMAIN batchStatus
Amounts == 1..MaxAmount

INVOICE_STATUS_CHOICES == {"OP", "OH", "CL"}

\* Invoice.get_closed_status
get_closed_status == "CL"

\* Advance.DiscountTypeChoices
DiscountTypeChoices == {"INST", "PERC"}

\* the percentages an advance of discount type PERC may carry
Percentages == {50}

\* the rows of Advance: amount, discount type and amount, will_be_discounted,
\* payment_start_date (the first day of the clock for every advance: the
\* payments have not started on day 1 and have on the days after)
AdvanceRows ==
    {r \in [amount : Amounts, discount_type : DiscountTypeChoices,
            discount_amount : Amounts \cup Percentages,
            will_be_discounted : BOOLEAN, payment_start_date : {1}] :
        IF r.discount_type = "INST" THEN r.discount_amount \in Amounts
                                    ELSE r.discount_amount \in Percentages}

\* no AdvanceInvoiceRelation of the advance and the invoice
NoRelation == [exists |-> FALSE, amount |-> 0, paid |-> FALSE]

\* no Invoice of the holder in the batch
NoInvoice == [exists |-> FALSE, value_converted |-> 0, status |-> "OP", payment_date |-> NoDate]

RECURSIVE SumSeq(_)
SumSeq(q) == IF q = <<>> THEN 0 ELSE Head(q) + SumSeq(Tail(q))

\* round(x, 2) of the Decimal num / den cents: ROUND_HALF_EVEN
RoundHalfEven(num, den) ==
    LET q == num \div den
        m == num % den
    IN  IF 2 * m < den THEN q
        ELSE IF 2 * m > den THEN q + 1
        ELSE IF q % 2 = 0 THEN q ELSE q + 1

\* Advance.total_paid, with the relations r: the paid amortizations, manual
\* ones (paid as they are created) included
total_paid(a, r) ==
    SumSeq([b \in Batches |-> IF r[a][b].exists /\ r[a][b].paid THEN r[a][b].amount ELSE 0])
    + SumSeq(manual[a])

\* Advance.total_to_pay, for the advance row self
total_to_pay(self, paid) == self.amount - paid

\* Advance.is_fully_paid
is_fully_paid(self, paid) == paid >= self.amount

\* Advance.next_installment_value
next_installment_value(self, paid, amount) ==
    IF amount > total_to_pay(self, paid) THEN total_to_pay(self, paid) ELSE amount

\* Advance.has_to_be_discounted
has_to_be_discounted(self, paid) ==
    /\ self.will_be_discounted
    /\ ~is_fully_paid(self, paid)
    /\ ~(self.payment_start_date < now)

\* AdvanceInvoiceRelation.set_value for an amortization with an invoice;
\* invoice_value 0 stands for None (`invoice_value or self.invoice.value_converted`)
set_value(advance, paid, invoice_value, value_converted) ==
    LET iv == IF invoice_value = 0 THEN value_converted ELSE invoice_value
        installment_value ==
            IF advance.discount_type = "INST"
            THEN next_installment_value(advance, paid, advance.discount_amount)
            ELSE next_installment_value(advance, paid,
                                        RoundHalfEven(iv * advance.discount_amount, 100))
    IN  IF installment_value > iv THEN iv ELSE installment_value

\* post_save_invoices for the saved invoice row of batch b, given the
\* relations and batch statuses at the save: with a payment date the invoice
\* is closed, its amortizations are marked paid and its batch is marked PA
post_save_invoices(b, instance, r, bs) ==
    IF instance.payment_date # NoDate
    THEN [inv |-> [instance EXCEPT !.status = get_closed_status],
          rel |-> [a \in Advances |->
                      [r[a] EXCEPT ![b] = IF @.exists THEN [@ EXCEPT !.paid = TRUE] ELSE @]],
          batchStatus |-> [bs EXCEPT ![b] = "PA"]]
    ELSE [inv |-> instance, rel |-> r, batchStatus |-> bs]

\* The while loop of make_invoices over the holder's advances with
\* will_be_discounted, in advance_date order, from the i-th on:
\* total_amortization_value is what the amortizations made so far add up to.
RECURSIVE Amortize(_, _, _, _, _)
Amortize(i, total_amortization_value, r, b, invoice_value_without_advances) ==
    IF ~(i \in Advances /\ total_amortization_value < invoice_value_without_advances)
    THEN r
    ELSE IF ~adv[i].will_be_discounted \/ ~has_to_be_discounted(adv[i], total_paid(i, r))
    THEN Amortize(i + 1, total_amortization_value, r, b, invoice_value_without_advances)
    ELSE LET max_amortization_value ==
                 invoice_value_without_advances - total_amortization_value
             amount == set_value(adv[i], total_paid(i, r), max_amortization_value,
                                 invoice_value_without_advances)
         IN  Amortize(i + 1, total_amortization_value + amount,
                      [r EXCEPT ![i][b] = [exists |-> TRUE, amount |-> amount, paid |-> @.paid]],
                      b, invoice_value_without_advances)

\* Batch.make_invoices: the holder's invoice is made or refreshed and saved
\* (post_save_invoices runs), the amortizations are made, the batch is
\* saved as CL.
MakeInvoices(b) ==
    /\ IF batchStatus[b] \notin {"PRS", "CL"}
       THEN UNCHANGED <<batchStatus, inv, rel>>
       ELSE LET invoice_value_without_advances == batchValue[b]
                invoice == [exists |-> TRUE,
                            value_converted |-> invoice_value_without_advances,
                            status |-> "OP",
                            payment_date |-> inv[b].payment_date]
                saved == post_save_invoices(b, invoice, rel, [batchStatus EXCEPT ![b] = "PI"])
            IN  /\ inv' = [inv EXCEPT ![b] = saved.inv]
                /\ rel' = Amortize(1, 0, saved.rel, b, invoice_value_without_advances)
                /\ batchStatus' = [batchStatus EXCEPT ![b] = "CL"]
    /\ lastOp' = [name |-> "make_invoices", arg |-> b, ret |-> RetNone]
    /\ UNCHANGED <<batchDue, batchValue, adv, manual, nonInvVars>>

\* Advance.save of advance a edited to the row self: refused when the
\* advance is fully paid, otherwise the row is stored and the value of each
\* open amortization is set again, with no maximum
SaveAdvance(a, self) ==
    /\ IF is_fully_paid(self, total_paid(a, rel))
       THEN /\ UNCHANGED <<adv, rel>>
            /\ lastOp' = [name |-> "save_advance", arg |-> a, ret |-> RetError]
       ELSE /\ adv' = [adv EXCEPT ![a] = self]
            /\ rel' = [rel EXCEPT ![a] =
                          [b \in Batches |->
                              IF rel[a][b].exists /\ ~rel[a][b].paid
                              THEN [rel[a][b] EXCEPT !.amount =
                                       set_value(self, total_paid(a, rel), 0,
                                                 inv[b].value_converted)]
                              ELSE rel[a][b]]]
            /\ lastOp' = [name |-> "save_advance", arg |-> a, ret |-> RetNone]
    /\ UNCHANGED <<batchStatus, batchDue, batchValue, inv, manual, nonInvVars>>

\* a manual amortization (no invoice) of advance a is created;
\* post_save_amortization marks it paid
AddManualAmortization(a, amount) ==
    /\ Len(manual[a]) < MaxManual
    /\ manual' = [manual EXCEPT ![a] = Append(@, amount)]
    /\ lastOp' = [name |-> "add_manual_amortization", arg |-> a, ret |-> RetNone]
    /\ UNCHANGED <<batchStatus, batchDue, batchValue, inv, adv, rel, nonInvVars>>

\* Invoice.mark_as_paid: status CL, payment_date the batch's invoice_due_date
\* (which may be null), save (post_save_invoices runs)
MarkAsPaid(b) ==
    /\ inv[b].exists
    /\ LET self == [inv[b] EXCEPT !.status = "CL", !.payment_date = batchDue[b]]
           saved == post_save_invoices(b, self, rel, batchStatus)
       IN  /\ inv' = [inv EXCEPT ![b] = saved.inv]
           /\ rel' = saved.rel
           /\ batchStatus' = saved.batchStatus
    /\ lastOp' = [name |-> "mark_as_paid", arg |-> {b}, ret |-> RetNone]
    /\ UNCHANGED <<batchDue, batchValue, adv, manual, nonInvVars>>

\* Invoice.mark_as_paid_bulk: queryset.update(...), which sends no signal
MarkAsPaidBulk(queryset) ==
    /\ queryset # {}
    /\ \A b \in queryset : inv[b].exists
    /\ inv' = [b \in Batches |->
                  IF b \in queryset
                  THEN [inv[b] EXCEPT !.status = "CL", !.payment_date = batchDue[b]]
                  ELSE inv[b]]
    /\ lastOp' = [name |-> "mark_as_paid_bulk", arg |-> queryset, ret |-> RetNone]
    /\ UNCHANGED <<batchStatus, batchDue, batchValue, adv, rel, manual, nonInvVars>>

\* an invoice is saved with its payment date set to payment_date (a direct
\* save; post_save_invoices runs)
SaveInvoice(b, payment_date) ==
    /\ inv[b].exists
    /\ LET self == [inv[b] EXCEPT !.payment_date = payment_date]
           saved == post_save_invoices(b, self, rel, batchStatus)
       IN  /\ inv' = [inv EXCEPT ![b] = saved.inv]
           /\ rel' = saved.rel
           /\ batchStatus' = saved.batchStatus
    /\ lastOp' = [name |-> "save_invoice", arg |-> {b}, ret |-> RetNone]
    /\ UNCHANGED <<batchDue, batchValue, adv, manual, nonInvVars>>

\* nb batches as distribute_batch leaves them (PRS), with an
\* invoice_due_date among dues, no invoice yet, na advances of the holder as
\* created, no amortization.
InitInvoices(na, nb, dues) ==
    /\ batchStatus = [b \in 1..nb |-> "PRS"]
    /\ batchDue \in [1..nb -> dues]
    /\ batchValue \in [1..nb -> Amounts]
    /\ inv = [b \in 1..nb |-> NoInvoice]
    /\ adv \in [1..na -> AdvanceRows]
    /\ rel = [a \in 1..na |-> [b \in 1..nb |-> NoRelation]]
    /\ manual = [a \in 1..na |-> <<>>]

\* one invoice and the advances discounted on it
InitInvoice ==
    /\ IdleProject
    /\ IdleReports
    /\ InitInvoices(NAdvances, 1, {NoDate, MaxDay})
    /\ IdleTasks
    /\ IdleDist
    /\ IdleCatalog
    /\ lastOp = NoOp

NextInvoice ==
    \/ \E b \in Batches : MakeInvoices(b)
    \/ \E a \in Advances, self \in AdvanceRows : SaveAdvance(a, self)
    \/ \E b \in Batches : MarkAsPaid(b)
    \/ \E queryset \in SUBSET Batches : MarkAsPaidBulk(queryset)
    \/ \E b \in Batches, d \in {NoDate, MaxDay} : SaveInvoice(b, d)
    \/ Tick

SpecInvoice == InitInvoice /\ [][NextInvoice]_vars

\* one advance and the invoices it is discounted on, on day 1, of batches that have
\* an invoice_due_date
InitAdvance ==
    /\ IdleProject
    /\ IdleReports
    /\ InitInvoices(1, NBatches, {MaxDay})
    /\ IdleTasks
    /\ IdleDist
    /\ IdleCatalog
    /\ lastOp = NoOp

NextAdvance ==
    \/ \E b \in Batches : MakeInvoices(b)
    \/ \E a \in Advances, self \in AdvanceRows : SaveAdvance(a, self)
    \/ \E a \in Advances, amount \in Amounts : AddManualAmortization(a, amount)
    \/ \E b \in Batches : MarkAsPaid(b)
    \/ \E queryset \in SUBSET Batches : MarkAsPaidBulk(queryset)
    \/ \E b \in Batches, d \in {NoDate, MaxDay} : SaveInvoice(b, d)

SpecAdvance == InitAdvance /\ [][NextAdvance]_vars

\* what the amortizations attached to the invoice of batch b add up to
\* (Invoice.advance_value_total)
advance_value_total(b) ==
    SumSeq([a \in Advances |-> IF rel[a][b].exists THEN rel[a][b].amount ELSE 0])

\* what the installments of advance a add up to, paid or not, manual or not
InstallmentsTotal(a) ==
    SumSeq([b \in Batches |-> IF rel[a][b].exists THEN rel[a][b].amount ELSE 0])
    + SumSeq(manual[a])

\* C2: for every invoice, the amounts of the amortizations attached to it
\* never add up to more than the invoice value (value_converted).
C2_AmortizationsWithinInvoice ==
    \A b \in Batches : inv[b].exists => advance_value_total(b) <= inv[b].value_converted

\* C3: the installments (amortizations) of an advance never add up to more
\* than the advance amount.
C3_InstallmentsWithinAdvance ==
    \A a \in Advances : InstallmentsTotal(a) <= adv[a].amount

\* C4: whenever an invoice gets a payment date through mark_as_paid,
\* mark_as_paid_bulk or a direct save, the operation ends with the invoice
\* closed (CL), every amortization attached to it paid, and its batch PA.
C4_PaymentDateClosesEverything ==
    [][\A b \in Batches :
          (/\ lastOp'.name \in {"mark_as_paid", "mark_as_paid_bulk", "save_invoice"}
           /\ b \in lastOp'.arg
           /\ inv'[b].payment_date # NoDate) =>
             /\ inv'[b].status = "CL"
             /\ \A a \in Advances : rel'[a][b].exists => rel'[a][b].paid
             /\ batchStatus'[b] = "PA"]_vars

\* the part of C4 the code keeps: mark_as_paid and a direct save that leave
\* the invoice with a payment date close it, pay its amortizations and mark
\* the batch PA
C4_SavePathsCloseEverything ==
    [][\A b \in Batches :
          (/\ lastOp'.name \in {"mark_as_paid", "save_invoice"}
           /\ b \in lastOp'.arg
           /\ inv'[b].payment_date # NoDate) =>
             /\ inv'[b].status = "CL"
             /\ \A a \in Advances : rel'[a][b].exists => rel'[a][b].paid
             /\ batchStatus'[b] = "PA"]_vars

----------------------------------------------------------------------------
(* apps.label_reports: ReportTempItem.get_holder,                           *)
(* calculate_values_to_distribute, distribute_item; the transfers of the    *)
(* asset have passed CopyrightInlineFormset.clean.  Percentages are whole   *)
(* numbers; money is counted in units of 10^-11, so that every product of   *)
(* a value (5 decimal places) and three percentages is exact, as it is in   *)
(* Decimal arithmetic.                                                      *)

\* 0.00001 in units of 10^-11: the 5 places of round(x, 5) and of the
\* DecimalFields of ReportItem
Unit == 1000000

\* the percentages a form of the formset may carry
FormPercentages == {0 - 50, 0, 50, 100}

\* the shares a main holder or a provider may have
Shares == {0, 30, 70, 100}

\* the forms of a formset: percentage and ignore_main_holder_share
Forms == [percentage : FormPercentages, ignore_main_holder_share : BOOLEAN]
Formsets == UNION {[1..n -> Forms] : n \in 0..MaxHolders}

\* round(x, 5) of a Decimal of x units of 10^-11, in the same units:
\* ROUND_HALF_EVEN, symmetric about zero
Round5(x) ==
    IF x >= 0 THEN RoundHalfEven(x, Unit) * Unit
              ELSE 0 - RoundHalfEven(0 - x, Unit) * Unit

\* a plausible slip: the check of the sum of the percentages is left out
clean_each_only(forms) ==
    \A i \in DOMAIN forms : 0 <= forms[i].percentage /\ forms[i].percentage <= 100

\* CopyrightInlineFormset.clean: TRUE when no error is added
clean(forms) ==
    LET percentage_total == SumSeq([i \in DOMAIN forms |-> forms[i].percentage])
    IN  /\ \A i \in DOMAIN forms : 0 <= forms[i].percentage /\ forms[i].percentage <= 100
        /\ 0 <= percentage_total /\ percentage_total <= 100

\* BasePercentageHolder.get_share
get_share(holder, main_holder_share) ==
    IF holder.ignore_main_holder_share THEN 100 ELSE main_holder_share

\* ReportTempItemAsset.get_holder / ReportTempItemYoutube.get_holder: one
\* entry for each transfer, then the main holder with what is left
get_holder ==
    LET n == Len(iHolders)
        transfer_share == SumSeq([i \in 1..n |-> iHolders[i].percentage])
        transfer_dist_share ==
            SumSeq([i \in 1..n |->
                       IF iMainShare < get_share(iHolders[i], iMainShare)
                       THEN iHolders[i].percentage ELSE 0])
    IN  [i \in 1..(n + 1) |->
            IF i <= n
            THEN [item_share |-> iHolders[i].percentage,
                  share |-> get_share(iHolders[i], iMainShare),
                  transfer_dist_share |-> 0]
            ELSE [item_share |-> 100 - transfer_share,
                  share |-> iMainShare,
                  transfer_dist_share |-> transfer_dist_share]]

\* ReportTempItem.calculate_values_to_distribute, in units of 10^-11 (the
\* converted values and the tax retention are left out)
calculate_values_to_distribute(holder_share, holder_item_share, provider_share, transfer_dist_share) ==
    LET value_total == iValue * (100 - provider_share) * 10000
        holder_item_value == holder_item_share * iValue * 10000
        provider_fee == holder_item_share * iValue * provider_share * 100
        value_total_to_distribute == holder_item_value - provider_fee
        value_transfer_dist ==
            (100 - holder_share) * transfer_dist_share * iValue * (100 - provider_share)
        special == holder_item_value = 0 /\ transfer_dist_share > 0
        value_holder ==
            IF special
            THEN value_transfer_dist * (0 - 1)
            ELSE Round5(holder_item_share * iValue * (100 - provider_share) * holder_share)
                 - value_transfer_dist
        value_distributor ==
            IF special
            THEN value_transfer_dist
            ELSE Round5(value_total_to_distribute - value_holder)
    IN  [provider_fees |-> provider_fee,
         holder_item_share |-> holder_item_share,
         value_total |-> holder_item_value,
         value_total_to_distribute |-> value_total_to_distribute,
         value_holder |-> value_holder,
         value_distributor |-> value_distributor]

\* ReportTempItem.distribute_item: a ReportItem is saved for each entry of
\* get_holder; value_holder and value_distributor are stored with 5 decimal
\* places
DistributeItem ==
    /\ iReportItems = <<>>
    /\ iReportItems' =
          [i \in DOMAIN get_holder |->
              LET holder == get_holder[i]
                  value_to_dist ==
                      calculate_values_to_distribute(holder.share, holder.item_share,
                                                     iProvider, holder.transfer_dist_share)
              IN  [holder_item_share |-> value_to_dist.holder_item_share,
                   value_holder |-> Round5(value_to_dist.value_holder),
                   value_distributor |-> Round5(value_to_dist.value_distributor),
                   provider_fees |-> value_to_dist.provider_fees,
                   transfer_dist_share |-> holder.transfer_dist_share]]
    /\ lastOp' = [name |-> "distribute_item", arg |-> 0, ret |-> RetNone]
    /\ UNCHANGED <<iValue, iProvider, iMainShare, iHolders, nonDistVars>>

\* a temporary item with any value, of a report of any provider, that names
\* an asset of any main holder, with any transfers the inline formset has
\* accepted
InitDistItem ==
    /\ iValue \in 0..MaxValue
    /\ iProvider \in Shares
    /\ iMainShare \in Shares
    /\ iHolders \in {forms \in Formsets : clean(forms)}
    /\ iReportItems = <<>>

InitDist ==
    /\ IdleTasks
    /\ IdleProject
    /\ IdleReports
    /\ IdleInvoices
    /\ InitDistItem
    /\ IdleCatalog
    /\ lastOp = NoOp

NextDist == DistributeItem

SpecDist == InitDist /\ [][NextDist]_vars

\* what the holder values, distributor values and provider fees of the
\* report items add up to
DistributedTotal ==
    SumSeq([i \in DOMAIN iReportItems |->
               iReportItems[i].value_holder + iReportItems[i].value_distributor
               + iReportItems[i].provider_fees])

----------------------------------------------------------------------------
(* apps.label_catalog: the save() overrides of Product, Asset and          *)
(* AssetComposerLink.  Each of them carries the body of notify_on_telegram *)
(* inlined, with its early return and its try / except.                    *)

Rows == 1..NRows
Fields == 1..MaxField

\* no row of that primary key
NoRow == 0

\* an exception that leaves save()
RetRaised == "raised"

\* the inlined body of notify_on_telegram, by where control leaves it: a name
\* it reads is not bound ("NameError"), the setting is off and it returns
\* ("return"), send_message raises ("failed"), the message goes out ("sent")
notify_on_telegram(bound, enabled, fails) ==
    IF ~bound THEN "NameError"
    ELSE IF ~enabled THEN "return"
    ELSE IF fails THEN "failed"
    ELSE "sent"

\* what one pass through the inlined body writes to the logs of a model
Logged(model, outcome) ==
    CASE outcome = "return" -> {<<model, "notification">>}
      [] outcome = "sent" -> {<<model, "notification">>}
      [] outcome = "failed" -> {<<model, "error">>}
      [] outcome = "NameError" -> {}

\* Product.notify_changes and Asset.notify_changes: nothing happens unless a
\* notifiable field changed; the early return of the inlined body leaves
\* notify_changes only, and whatever is raised inside is caught by the
\* method's own try / except and logged
notify_changes(model, changed, fails) ==
    IF ~changed THEN {}
    ELSE LET outcome == notify_on_telegram(namesBound, SEND_TELEGRAM_NOTIFICATIONS, fails)
         IN  IF outcome = "NameError" THEN {<<model, "error">>} ELSE Logged(model, outcome)

\* Product.save: notify_changes inside try / except, then the thumbnail,
\* super().save() and the two checks handed to celery
SaveProduct(pk, value, changed, fails) ==
    /\ logged' = logged \cup notify_changes("Product", changed, fails)
    /\ products' = [products EXCEPT ![pk] = value]
    /\ celery' = celery \cup {<<"check_for_similar_products_within_the_release_week", pk>>,
                              <<"check_for_release_date_on_holidays", pk>>}
    /\ lastOp' = [name |-> "Product.save", arg |-> <<pk, value>>, ret |-> RetNone]
    /\ UNCHANGED <<SEND_TELEGRAM_NOTIFICATIONS, namesBound, assets, links, nonCatVars>>

\* Asset.save: notify_changes, then the thumbnail, super().save() and the
\* youtube integrity task handed to celery
SaveAsset(pk, value, changed, fails) ==
    /\ logged' = logged \cup notify_changes("Asset", changed, fails)
    /\ assets' = [assets EXCEPT ![pk] = value]
    /\ celery' = celery \cup {<<"ensure_youtube_asset_integrity_after_asset_update", pk>>}
    /\ lastOp' = [name |-> "Asset.save", arg |-> <<pk, value>>, ret |-> RetNone]
    /\ UNCHANGED <<SEND_TELEGRAM_NOTIFICATIONS, namesBound, products, links, nonCatVars>>

\* AssetComposerLink.save: the inlined body stands in save() itself, so its
\* early return leaves save() before super().save(), and a name that is not
\* bound raises outside any try; when send_message raises, the except branch
\* logs the error and runs the body once more, and then the row is saved
SaveAssetComposerLink(pk, value, fails, failsAgain) ==
    LET outcome == notify_on_telegram(namesBound, SEND_TELEGRAM_NOTIFICATIONS, fails)
        again == notify_on_telegram(namesBound, SEND_TELEGRAM_NOTIFICATIONS, failsAgain)
    IN  /\ logged' = logged \cup Logged("AssetComposerLink", outcome)
                            \cup (IF outcome = "failed" THEN Logged("AssetComposerLink", again) ELSE {})
        /\ links' = IF outcome \in {"sent", "failed"} THEN [links EXCEPT ![pk] = value] ELSE links
        /\ lastOp' = [name |-> "AssetComposerLink.save", arg |-> <<pk, value>>,
                      ret |-> IF outcome = "NameError" THEN RetRaised ELSE RetNone]
        /\ UNCHANGED <<SEND_TELEGRAM_NOTIFICATIONS, namesBound, products, assets, celery, nonCatVars>>

\* an empty catalog, under either value of the setting
InitCatalog ==
    /\ SEND_TELEGRAM_NOTIFICATIONS \in BOOLEAN
    /\ namesBound \in BOOLEAN
    /\ products = [pk \in Rows |-> NoRow]
    /\ assets = [pk \in Rows |-> NoRow]
    /\ links = [pk \in Rows |-> NoRow]
    /\ logged = {}
    /\ celery = {}

InitSave ==
    /\ IdleTasks
    /\ IdleProject
    /\ IdleReports
    /\ IdleInvoices
    /\ IdleDist
    /\ InitCatalog
    /\ lastOp = NoOp

NextSave ==
    \/ \E pk \in Rows, value \in Fields, changed, fails \in BOOLEAN : SaveProduct(pk, value, changed, fails)
    \/ \E pk \in Rows, value \in Fields, changed, fails \in BOOLEAN : SaveAsset(pk, value, changed, fails)
    \/ \E pk \in Rows, value \in Fields, fails, failsAgain \in BOOLEAN : SaveAssetComposerLink(pk, value, fails, failsAgain)

SpecSave == InitSave /\ [][NextSave]_vars

\* C11: a save() of a product, an asset or an asset-composer link leaves the
\* saved record in the database, whether the notifications are enabled or
\* not and whether sending them fails or not.
C11_SavePersistsTheRecord ==
    [][/\ lastOp'.name = "Product.save" => products'[lastOp'.arg[1]] = lastOp'.arg[2]
       /\ lastOp'.name = "Asset.save" => assets'[lastOp'.arg[1]] = lastOp'.arg[2]
       /\ lastOp'.name = "AssetComposerLink.save" => links'[lastOp'.arg[1]] = lastOp'.arg[2]]_vars

\* the part of C11 that the code keeps: a product and an asset are always
\* saved, and a link is saved whenever the notifications are enabled and the
\* names of the inlined body are bound, whether sending fails or not
C11_SavedExceptLinkWhenDisabled ==
    [][/\ lastOp'.name = "Product.save" => products'[lastOp'.arg[1]] = lastOp'.arg[2]
       /\ lastOp'.name = "Asset.save" => assets'[lastOp'.arg[1]] = lastOp'.arg[2]
       /\ (lastOp'.name = "AssetComposerLink.save" /\ SEND_TELEGRAM_NOTIFICATIONS /\ namesBound)
              => links'[lastOp'.arg[1]] = lastOp'.arg[2]]_vars

\* a link saved while the notifications are disabled is never stored
C11_LinkNeverStoredWhenDisabled ==
    ~SEND_TELEGRAM_NOTIFICATIONS => \A pk \in Rows : links[pk] = NoRow

====
